---- MODULE Spec2Model ----
(***************************************************************************)
(* Model of scripts/scraper.py: the incremental hutbe crawl (main), the     *)
(* static prayer pass (process_prayers), the catalog store (load_json,      *)
(* save_json) and the pure helpers they use (slugify_filename,              *)
(* hutbe_id_from_url, determine_year, extract_pdf_candidates).              *)
(*                                                                         *)
(* A character is its Unicode code point and a text is a sequence of code   *)
(* points; Text(<<"F","o","o">>) writes one down in printable ASCII.  A     *)
(* source_pdf_url is written as its path, which has no "?" and no "#":      *)
(* urljoin(BASE_SITE, href) of an absolute-path href is BASE_SITE followed  *)
(* by href, and urlsplit(url).path gives the path back.                     *)
(*                                                                         *)
(* The disk is a Linux file system the program may write to: mkdir and      *)
(* open succeed, except that a path which is a directory cannot be opened   *)
(* as a file and that a file name of more than NAME_MAX bytes can be        *)
(* neither looked up nor opened.  The interpreter is Python 3.11, whose     *)
(* Path.exists() answers False for a path below a missing directory and     *)
(* passes on every OSError other than ENOENT, ENOTDIR, EBADF and ELOOP.     *)
(***************************************************************************)
EXTENDS Integers, Sequences, FiniteSets, TLC

(* ------------------------------ bounds -------------------------------- *)

\* Number of successive executions of main() that a behaviour follows.
MaxRuns == 2

\* Longest remote file name (without ".pdf") drawn for year resolution.
MaxNameLen == 5

\* Number of listing pages the remote holds, counted in crawl order from
\* the first language's start page; every later page answers 404.
ListedPages == 2

\* Number of downloads that the remote makes fail in one behaviour (a
\* download that fails because its file name is too long is not counted).
MaxFailures == 1

(* ------------------------- program constants -------------------------- *)

START_PAGE == 1

\* END_PAGE = int(os.getenv("HUTBE_MAX_PAGES", "10")), run with
\* HUTBE_MAX_PAGES=2.
END_PAGE == 2

\* The keys of URLS in dictionary (iteration) order.
URLS == <<"tr", "de", "en", "fr", "ru", "ar", "it", "es">>

(* ------------------------------- text --------------------------------- *)

\* The printable ASCII characters from code point 32 to 95 and from 97 to
\* 126 (a string cannot hold the grave accent, code point 96).
AsciiLow ==
  <<" ", "!", "\"", "#", "$", "%", "&", "'", "(", ")", "*", "+", ",", "-",
    ".", "/", "0", "1", "2", "3", "4", "5", "6", "7", "8", "9", ":", ";",
    "<", "=", ">", "?", "@", "A", "B", "C", "D", "E", "F", "G", "H", "I",
    "J", "K", "L", "M", "N", "O", "P", "Q", "R", "S", "T", "U", "V", "W",
    "X", "Y", "Z", "[", "\\", "]", "^", "_">>
AsciiHigh ==
  <<"a", "b", "c", "d", "e", "f", "g", "h", "i", "j", "k", "l", "m", "n",
    "o", "p", "q", "r", "s", "t", "u", "v", "w", "x", "y", "z", "{", "|",
    "}", "~">>

\* ord(c) of such a character, and the text of a literal.
Ord(c) ==
  IF \E i \in 1..Len(AsciiLow) : AsciiLow[i] = c
  THEN 31 + CHOOSE i \in 1..Len(AsciiLow) : AsciiLow[i] = c
  ELSE 96 + CHOOSE i \in 1..Len(AsciiHigh) : AsciiHigh[i] = c
Text(s) == [i \in 1..Len(s) |-> Ord(s[i])]

Percent == Ord("%")
Slash == Ord("/")
Dot == Ord(".")
Hyphen == Ord("-")

Ascii == 0..127
Digits == 48..57
Upper == 65..90
Lower == 97..122
\* string.hexdigits
IsHexDigit(c) == c \in Digits \/ c \in 65..70 \/ c \in 97..102

PdfExt == Text(<<".", "p", "d", "f">>)
NoDate == <<>>

\* PRAYER_URLS in dictionary order: key, title, url.
PRAYER_URLS ==
  << [key |-> "friday_prayer",
      title |-> Text(<<"F","r","i","d","a","y"," ","K","h","u","t","b","a","h"," ","P","r","a","y","e","r","s">>),
      url |-> "https://dinhizmetleri.diyanet.gov.tr/HutbeDualari/Cuma%20Hutbesi%20Dualar%C4%B1.pdf"],
     [key |-> "eid_prayer",
      title |-> Text(<<"E","i","d"," ","K","h","u","t","b","a","h"," ","P","r","a","y","e","r","s">>),
      url |-> "https://dinhizmetleri.diyanet.gov.tr/HutbeDualari/Bayram%20Hutbesi%20Dualar%C4%B1.pdf"] >>

Max(S) == CHOOSE x \in S : \A y \in S : y <= x
Min(S) == CHOOSE x \in S : \A y \in S : x <= y

\* "".join(pieces)
RECURSIVE Join(_)
Join(pieces) ==
  IF Len(pieces) = 0 THEN <<>>
  ELSE IF Len(pieces) = 1 THEN pieces[1]
  ELSE Join(SubSeq(pieces, 1, Len(pieces) \div 2))
         \o Join(SubSeq(pieces, (Len(pieces) \div 2) + 1, Len(pieces)))

\* Positions of character c in s.
Positions(s, c) == {i \in 1..Len(s) : s[i] = c}

\* str.lower() on one ASCII character.
LowerChar(c) == IF c \in Upper THEN c + 32 ELSE c

LowerText(s) == [i \in 1..Len(s) |-> LowerChar(s[i])]

\* int(h, 16) of one hex digit.
HexValue(c) ==
  CASE c \in Digits -> c - 48
    [] c \in 65..70 -> c - 55
    [] c \in 97..102 -> c - 87

\* Whether a percent escape starts at position i of s.
IsEscape(s, i) ==
  /\ i >= 1
  /\ i + 2 <= Len(s)
  /\ s[i] = Percent
  /\ IsHexDigit(s[i + 1])
  /\ IsHexDigit(s[i + 2])

\* urllib.parse.unquote_to_bytes on ASCII text: "%" and two hex digits
\* become the byte they name, every other character is its own byte.
unquote_to_bytes(s) ==
  Join([i \in 1..Len(s) |->
          IF IsEscape(s, i)
          THEN <<16 * HexValue(s[i + 1]) + HexValue(s[i + 2])>>
          ELSE IF IsEscape(s, i - 1) \/ IsEscape(s, i - 2) THEN <<>>
          ELSE <<s[i]>>])

\* Length of the UTF-8 sequence that lead byte b opens, 0 when b opens none.
Utf8Length(b) ==
  CASE b \in 0..127 -> 1
    [] b \in 194..223 -> 2
    [] b \in 224..239 -> 3
    [] b \in 240..244 -> 4
    [] OTHER -> 0

\* The bytes that may follow lead byte b as its second byte.
SecondBytes(b) ==
  CASE b = 224 -> 160..191
    [] b = 237 -> 128..159
    [] b = 240 -> 144..191
    [] b = 244 -> 128..143
    [] OTHER -> 128..191

\* The code point a well-formed UTF-8 sequence encodes.
Utf8CodePoint(bs) ==
  CASE Len(bs) = 1 -> bs[1]
    [] Len(bs) = 2 -> (bs[1] - 192) * 64 + (bs[2] - 128)
    [] Len(bs) = 3 -> (bs[1] - 224) * 4096 + (bs[2] - 128) * 64 + (bs[3] - 128)
    [] Len(bs) = 4 -> (bs[1] - 240) * 262144 + (bs[2] - 128) * 4096
                        + (bs[3] - 128) * 64 + (bs[4] - 128)

ReplacementChar == 65533

\* The number of bytes, from the lead byte at position p on, that form a
\* UTF-8 sequence or the beginning of one: the lead byte and the bytes
\* after it that can continue it.
GoodBytes(bs, p) ==
  LET n == Utf8Length(bs[p])
      fits(k) == /\ p + k - 1 <= Len(bs)
                 /\ bs[p + k - 1] \in
                      (IF k = 2 THEN SecondBytes(bs[p]) ELSE 128..191)
  IN  1 + Cardinality({k \in 2..n : \A j \in 2..k : fits(j)})

\* Whether the byte at position q belongs to a sequence that began before
\* it (such a byte is in 128..191, and a byte in 128..191 begins none).
Continues(bs, q) ==
  /\ bs[q] \in 128..191
  /\ \E p \in Max({1, q - 3})..(q - 1) : q < p + GoodBytes(bs, p)

\* bytes.decode("utf-8", "replace"): a well-formed sequence becomes its
\* code point; an ill-formed one becomes U+FFFD for the bytes up to the
\* first one that cannot continue it.
decode_utf8(bs) ==
  Join([p \in 1..Len(bs) |->
          IF Continues(bs, p) THEN <<>>
          ELSE IF Utf8Length(bs[p]) = GoodBytes(bs, p)
          THEN <<Utf8CodePoint(SubSeq(bs, p, p + GoodBytes(bs, p) - 1))>>
          ELSE <<ReplacementChar>>])

\* Where the run of ASCII characters that holds position i of s ends.
AsciiRun(s, i) ==
  LET later == {k \in i..Len(s) : s[k] \notin Ascii}
  IN  IF later = {} THEN Len(s) ELSE Min(later) - 1

\* urllib.parse.unquote(s): a text without "%" is returned as it is; in
\* any other each run of ASCII characters is turned into bytes and decoded
\* as UTF-8, and the other characters are kept.
unquote(s) ==
  IF \A i \in 1..Len(s) : s[i] # Percent THEN s
  ELSE Join([i \in 1..Len(s) |->
               IF s[i] \notin Ascii THEN <<s[i]>>
               ELSE IF i > 1 /\ s[i - 1] \in Ascii THEN <<>>
               ELSE decode_utf8(unquote_to_bytes(SubSeq(s, i, AsciiRun(s, i))))])

\* The characters str.strip() removes: those with str.isspace().
Whitespace ==
  {9, 10, 11, 12, 13, 28, 29, 30, 31, 32, 133, 160, 5760, 8192, 8193, 8194,
   8195, 8196, 8197, 8198, 8199, 8200, 8201, 8202, 8232, 8233, 8239, 8287,
   12288}

\* s.strip(chars): drop the leading and trailing characters in chars.
LStrip(s, chars) ==
  SubSeq(s, 1 + Cardinality({k \in 1..Len(s) : \A j \in 1..k : s[j] \in chars}),
         Len(s))

RStrip(s, chars) ==
  SubSeq(s, 1,
         Len(s) - Cardinality({k \in 1..Len(s) : \A j \in k..Len(s) : s[j] \in chars}))

Strip(s, chars) == RStrip(LStrip(s, chars), chars)

\* The "replacements" table of slugify_filename (Turkish letters).
TurkishReplacement(c) ==
  CASE c \in {305, 304} -> Ord("i")
    [] c \in {287, 286} -> Ord("g")
    [] c \in {252, 220} -> Ord("u")
    [] c \in {351, 350} -> Ord("s")
    [] c \in {246, 214} -> Ord("o")
    [] c \in {231, 199} -> Ord("c")
    [] OTHER -> c

\* The characters above U+007F whose NFKD decomposition holds ASCII
\* characters, grouped by those characters (Unicode 14.0.0).
NfkdGroups ==
  {
    <<<<32>>, {160, 168, 175, 180, 184, 890, 900, 901, 8125, 8173, 8174,
       8189, 8190, 8215, 8239, 8254, 8287, 12288, 12443, 12444, 65019,
       65136, 65138, 65140, 65142, 65144, 65146, 65148, 65150, 65507} \cup
       (728..733) \cup (8127..8129) \cup (8141..8143) \cup (8157..8159) \cup
       (8192..8202) \cup (64606..64611) \cup (65097..65100)>>,
    <<<<97>>, {170, 257, 259, 261, 462, 479, 481, 507, 513, 515, 551, 7491,
       7681, 7834, 7841, 7843, 7845, 7847, 7849, 7851, 7853, 7855, 7857,
       7859, 7861, 7863, 8336, 9424, 65345, 119834, 119886, 119938, 119990,
       120042, 120094, 120146, 120198, 120250, 120302, 120354, 120406,
       120458} \cup (224..229)>>,
    <<<<50>>, {178, 8322, 9313, 12993, 13146, 13281, 65298, 120784, 120794,
       120804, 120814, 120824, 130034}>>,
    <<<<51>>, {179, 8323, 9314, 12994, 13147, 13282, 65299, 120785, 120795,
       120805, 120815, 120825, 130035}>>,
    <<<<49>>, {185, 8321, 8543, 9312, 12992, 13145, 13280, 65297, 120783,
       120793, 120803, 120813, 120823, 130033}>>,
    <<<<111>>, {186, 333, 335, 337, 417, 466, 491, 493, 525, 527, 555, 557,
       559, 561, 7506, 7757, 7759, 7761, 7763, 7885, 7887, 7889, 7891, 7893,
       7895, 7897, 7899, 7901, 7903, 7905, 7907, 8338, 8500, 9438, 65359,
       119848, 119900, 119952, 120056, 120108, 120160, 120212, 120264,
       120316, 120368, 120420, 120472} \cup (242..246)>>,
    <<<<49, 52>>, {188, 9325, 13158, 13293}>>,
    <<<<49, 50>>, {189, 9323, 13003, 13156, 13291}>>,
    <<<<51, 52>>, {190, 12894}>>,
    <<<<65>>, {256, 258, 260, 461, 478, 480, 506, 512, 514, 550, 7468, 7680,
       7840, 7842, 7844, 7846, 7848, 7850, 7852, 7854, 7856, 7858, 7860,
       7862, 8491, 9398, 13186, 65313, 119808, 119860, 119912, 119964,
       120016, 120068, 120120, 120172, 120224, 120276, 120328, 120380,
       120432, 127280} \cup (192..197)>>,
    <<<<67>>, {199, 262, 264, 266, 268, 7688, 8450, 8451, 8493, 8557, 9400,
       42994, 65315, 119810, 119862, 119914, 119966, 120018, 120174, 120226,
       120278, 120330, 120382, 120434, 127275, 127282}>>,
    <<<<69>>, {274, 276, 278, 280, 282, 516, 518, 552, 7473, 7700, 7702,
       7704, 7706, 7708, 7864, 7866, 7868, 7870, 7872, 7874, 7876, 7878,
       8496, 9402, 65317, 119812, 119864, 119916, 120020, 120072, 120124,
       120176, 120228, 120280, 120332, 120384, 120436, 127284} \cup
       (200..203)>>,
    <<<<73>>, {296, 298, 300, 302, 304, 463, 520, 522, 7477, 7724, 7726,
       7880, 7882, 8464, 8465, 8544, 9406, 65321, 119816, 119868, 119920,
       120024, 120128, 120180, 120232, 120284, 120336, 120388, 120440,
       127288} \cup (204..207)>>,
    <<<<78>>, {209, 323, 325, 327, 504, 7482, 7748, 7750, 7752, 7754, 8469,
       9411, 65326, 119821, 119873, 119925, 119977, 120029, 120081, 120185,
       120237, 120289, 120341, 120393, 120445, 127293}>>,
    <<<<79>>, {332, 334, 336, 416, 465, 490, 492, 524, 526, 554, 556, 558,
       560, 7484, 7756, 7758, 7760, 7762, 7884, 7886, 7888, 7890, 7892,
       7894, 7896, 7898, 7900, 7902, 7904, 7906, 9412, 65327, 119822,
       119874, 119926, 119978, 120030, 120082, 120134, 120186, 120238,
       120290, 120342, 120394, 120446, 127294} \cup (210..214)>>,
    <<<<85>>, {360, 362, 364, 366, 368, 370, 431, 467, 469, 471, 473, 475,
       532, 534, 7489, 7794, 7796, 7798, 7800, 7802, 7908, 7910, 7912, 7914,
       7916, 7918, 7920, 9418, 65333, 119828, 119880, 119932, 119984,
       120036, 120088, 120140, 120192, 120244, 120296, 120348, 120400,
       120452, 127300} \cup (217..220)>>,
    <<<<89>>, {221, 374, 376, 562, 7822, 7922, 7924, 7926, 7928, 9422,
       65337, 119832, 119884, 119936, 119988, 120040, 120092, 120144,
       120196, 120248, 120300, 120352, 120404, 120456, 127304}>>,
    <<<<99>>, {231, 263, 265, 267, 269, 7580, 7689, 8573, 9426, 65347,
       119836, 119888, 119940, 119992, 120044, 120096, 120148, 120200,
       120252, 120304, 120356, 120408, 120460}>>,
    <<<<101>>, {275, 277, 279, 281, 283, 517, 519, 553, 7497, 7701, 7703,
       7705, 7707, 7709, 7865, 7867, 7869, 7871, 7873, 7875, 7877, 7879,
       8337, 8495, 8519, 9428, 65349, 119838, 119890, 119942, 120046,
       120098, 120150, 120202, 120254, 120306, 120358, 120410, 120462} \cup
       (232..235)>>,
    <<<<105>>, {297, 299, 301, 303, 464, 521, 523, 7522, 7725, 7727, 7881,
       7883, 8305, 8505, 8520, 8560, 9432, 65353, 119842, 119894, 119946,
       119998, 120050, 120102, 120154, 120206, 120258, 120310, 120362,
       120414, 120466} \cup (236..239)>>,
    <<<<110>>, {241, 324, 326, 328, 329, 505, 7749, 7751, 7753, 7755, 8319,
       8345, 9437, 65358, 119847, 119899, 119951, 120003, 120055, 120107,
       120159, 120211, 120263, 120315, 120367, 120419, 120471}>>,
    <<<<117>>, {361, 363, 365, 367, 369, 371, 432, 468, 470, 472, 474, 476,
       533, 535, 7512, 7524, 7795, 7797, 7799, 7801, 7803, 7909, 7911, 7913,
       7915, 7917, 7919, 7921, 9444, 65365, 119854, 119906, 119958, 120010,
       120062, 120114, 120166, 120218, 120270, 120322, 120374, 120426,
       120478} \cup (249..252)>>,
    <<<<121>>, {253, 255, 375, 563, 696, 7823, 7833, 7923, 7925, 7927, 7929,
       9448, 65369, 119858, 119910, 119962, 120014, 120066, 120118, 120170,
       120222, 120274, 120326, 120378, 120430, 120482}>>,
    <<<<68>>, {270, 7472, 7690, 7692, 7694, 7696, 7698, 8517, 8558, 9401,
       65316, 119811, 119863, 119915, 119967, 120019, 120071, 120123,
       120175, 120227, 120279, 120331, 120383, 120435, 127283}>>,
    <<<<100>>, {271, 7496, 7691, 7693, 7695, 7697, 7699, 8518, 8574, 9427,
       65348, 119837, 119889, 119941, 119993, 120045, 120097, 120149,
       120201, 120253, 120305, 120357, 120409, 120461}>>,
    <<<<71>>, {284, 286, 288, 290, 486, 500, 7475, 7712, 9404, 65319,
       119814, 119866, 119918, 119970, 120022, 120074, 120126, 120178,
       120230, 120282, 120334, 120386, 120438, 127286}>>,
    <<<<103>>, {285, 287, 289, 291, 487, 501, 7501, 7713, 8458, 9430, 13197,
       65351, 119840, 119892, 119944, 120048, 120100, 120152, 120204,
       120256, 120308, 120360, 120412, 120464}>>,
    <<<<72>>, {292, 542, 7476, 7714, 7716, 7718, 7720, 7722, 9405, 65320,
       119815, 119867, 119919, 120023, 120179, 120231, 120283, 120335,
       120387, 120439, 127287} \cup (8459..8461)>>,
    <<<<104>>, {293, 543, 688, 7715, 7717, 7719, 7721, 7723, 7830, 8341,
       8462, 9431, 65352, 119841, 119945, 119997, 120049, 120101, 120153,
       120205, 120257, 120309, 120361, 120413, 120465}>>,
    <<<<73, 74>>, {306}>>,
    <<<<105, 106>>, {307}>>,
    <<<<74>>, {308, 7478, 9407, 65322, 119817, 119869, 119921, 119973,
       120025, 120077, 120129, 120181, 120233, 120285, 120337, 120389,
       120441, 127289}>>,
    <<<<106>>, {309, 496, 690, 8521, 9433, 11388, 65354, 119843, 119895,
       119947, 119999, 120051, 120103, 120155, 120207, 120259, 120311,
       120363, 120415, 120467}>>,
    <<<<75>>, {310, 488, 7479, 7728, 7730, 7732, 8490, 9408, 65323, 119818,
       119870, 119922, 119974, 120026, 120078, 120130, 120182, 120234,
       120286, 120338, 120390, 120442, 127290}>>,
    <<<<107>>, {311, 489, 7503, 7729, 7731, 7733, 8342, 9434, 13248, 65355,
       119844, 119896, 119948, 120000, 120052, 120104, 120156, 120208,
       120260, 120312, 120364, 120416, 120468}>>,
    <<<<76>>, {313, 315, 317, 319, 7480, 7734, 7736, 7738, 7740, 8466, 8556,
       9409, 65324, 119819, 119871, 119923, 120027, 120079, 120131, 120183,
       120235, 120287, 120339, 120391, 120443, 127291}>>,
    <<<<108>>, {314, 316, 318, 320, 737, 7735, 7737, 7739, 7741, 8343, 8467,
       8572, 9435, 13205, 65356, 119845, 119897, 119949, 120001, 120053,
       120105, 120157, 120209, 120261, 120313, 120365, 120417, 120469}>>,
    <<<<82>>, {340, 342, 344, 528, 530, 7487, 7768, 7770, 7772, 7774, 9415,
       65330, 119825, 119877, 119929, 120033, 120189, 120241, 120293,
       120345, 120397, 120449, 127276, 127297} \cup (8475..8477)>>,
    <<<<114>>, {341, 343, 345, 529, 531, 691, 7523, 7769, 7771, 7773, 7775,
       9441, 65362, 119851, 119903, 119955, 120007, 120059, 120111, 120163,
       120215, 120267, 120319, 120371, 120423, 120475}>>,
    <<<<83>>, {346, 348, 350, 352, 536, 7776, 7778, 7780, 7782, 7784, 9416,
       65331, 119826, 119878, 119930, 119982, 120034, 120086, 120138,
       120190, 120242, 120294, 120346, 120398, 120450, 127274, 127298}>>,
    <<<<115>>, {347, 349, 351, 353, 383, 537, 738, 7777, 7779, 7781, 7783,
       7785, 7835, 8347, 9442, 13234, 65363, 119852, 119904, 119956, 120008,
       120060, 120112, 120164, 120216, 120268, 120320, 120372, 120424,
       120476}>>,
    <<<<84>>, {354, 356, 538, 7488, 7786, 7788, 7790, 7792, 9417, 65332,
       119827, 119879, 119931, 119983, 120035, 120087, 120139, 120191,
       120243, 120295, 120347, 120399, 120451, 127299}>>,
    <<<<116>>, {355, 357, 539, 7511, 7787, 7789, 7791, 7793, 7831, 8348,
       9443, 65364, 119853, 119905, 119957, 120009, 120061, 120113, 120165,
       120217, 120269, 120321, 120373, 120425, 120477}>>,
    <<<<87>>, {372, 7490, 7808, 7810, 7812, 7814, 7816, 9420, 13244, 65335,
       119830, 119882, 119934, 119986, 120038, 120090, 120142, 120194,
       120246, 120298, 120350, 120402, 120454, 127302}>>,
    <<<<119>>, {373, 695, 7809, 7811, 7813, 7815, 7817, 7832, 9446, 65367,
       119856, 119908, 119960, 120012, 120064, 120116, 120168, 120220,
       120272, 120324, 120376, 120428, 120480}>>,
    <<<<90>>, {377, 379, 381, 7824, 7826, 7828, 8484, 8488, 9423, 65338,
       119833, 119885, 119937, 119989, 120041, 120197, 120249, 120301,
       120353, 120405, 120457, 127305}>>,
    <<<<122>>, {378, 380, 382, 7611, 7825, 7827, 7829, 9449, 65370, 119859,
       119911, 119963, 120015, 120067, 120119, 120171, 120223, 120275,
       120327, 120379, 120431, 120483}>>,
    <<<<68, 90>>, {452, 497}>>,
    <<<<68, 122>>, {453, 498}>>,
    <<<<100, 122>>, {454, 499}>>,
    <<<<76, 74>>, {455}>>,
    <<<<76, 106>>, {456}>>,
    <<<<108, 106>>, {457}>>,
    <<<<78, 74>>, {458}>>,
    <<<<78, 106>>, {459}>>,
    <<<<110, 106>>, {460}>>,
    <<<<120>>, {739, 7819, 7821, 8339, 8569, 9447, 65368, 119857, 119909,
       119961, 120013, 120065, 120117, 120169, 120221, 120273, 120325,
       120377, 120429, 120481}>>,
    <<<<59>>, {894, 65044, 65108, 65307}>>,
    <<<<66>>, {7470, 7682, 7684, 7686, 8492, 9399, 65314, 119809, 119861,
       119913, 120017, 120069, 120121, 120173, 120225, 120277, 120329,
       120381, 120433, 127281}>>,
    <<<<77>>, {7481, 7742, 7744, 7746, 8499, 8559, 9410, 13249, 65325,
       119820, 119872, 119924, 120028, 120080, 120132, 120184, 120236,
       120288, 120340, 120392, 120444, 127292}>>,
    <<<<80>>, {7486, 7764, 7766, 8473, 9413, 65328, 119823, 119875, 119927,
       119979, 120031, 120083, 120187, 120239, 120291, 120343, 120395,
       120447, 127295}>>,
    <<<<98>>, {7495, 7683, 7685, 7687, 9425, 65346, 119835, 119887, 119939,
       119991, 120043, 120095, 120147, 120199, 120251, 120303, 120355,
       120407, 120459}>>,
    <<<<109>>, {7504, 7743, 7745, 7747, 8344, 8575, 9436, 13211, 65357,
       119846, 119898, 119950, 120002, 120054, 120106, 120158, 120210,
       120262, 120314, 120366, 120418, 120470}>>,
    <<<<112>>, {7510, 7765, 7767, 8346, 9439, 65360, 119849, 119901, 119953,
       120005, 120057, 120109, 120161, 120213, 120265, 120317, 120369,
       120421, 120473}>>,
    <<<<118>>, {7515, 7525, 7805, 7807, 8564, 9445, 65366, 119855, 119907,
       119959, 120011, 120063, 120115, 120167, 120219, 120271, 120323,
       120375, 120427, 120479}>>,
    <<<<102>>, {7584, 7711, 9429, 65350, 119839, 119891, 119943, 119995,
       120047, 120099, 120151, 120203, 120255, 120307, 120359, 120411,
       120463}>>,
    <<<<70>>, {7710, 8457, 8497, 9403, 13196, 42995, 65318, 119813, 119865,
       119917, 120021, 120073, 120125, 120177, 120229, 120281, 120333,
       120385, 120437, 127285}>>,
    <<<<86>>, {7804, 7806, 8548, 9419, 11389, 13238, 65334, 119829, 119881,
       119933, 119985, 120037, 120089, 120141, 120193, 120245, 120297,
       120349, 120401, 120453, 127301}>>,
    <<<<88>>, {7818, 7820, 8553, 9421, 65336, 119831, 119883, 119935,
       119987, 120039, 120091, 120143, 120195, 120247, 120299, 120351,
       120403, 120455, 127303}>>,
    <<<<96>>, {8175, 65344}>>,
    <<<<46>>, {8228, 65106, 65294}>>,
    <<<<46, 46>>, {8229, 65072}>>,
    <<<<46, 46, 46>>, {8230, 65049}>>,
    <<<<33, 33>>, {8252}>>,
    <<<<63, 63>>, {8263}>>,
    <<<<63, 33>>, {8264}>>,
    <<<<33, 63>>, {8265}>>,
    <<<<48>>, {8304, 8320, 9450, 13144, 65296, 120782, 120792, 120802,
       120812, 120822, 130032}>>,
    <<<<52>>, {8308, 8324, 9315, 12995, 13148, 13283, 65300, 120786, 120796,
       120806, 120816, 120826, 130036}>>,
    <<<<53>>, {8309, 8325, 9316, 12996, 13149, 13284, 65301, 120787, 120797,
       120807, 120817, 120827, 130037}>>,
    <<<<54>>, {8310, 8326, 9317, 12997, 13150, 13285, 65302, 120788, 120798,
       120808, 120818, 120828, 130038}>>,
    <<<<55>>, {8311, 8327, 9318, 12998, 13151, 13286, 65303, 120789, 120799,
       120809, 120819, 120829, 130039}>>,
    <<<<56>>, {8312, 8328, 9319, 12999, 13152, 13287, 65304, 120790, 120800,
       120810, 120820, 120830, 130040}>>,
    <<<<57>>, {8313, 8329, 9320, 13000, 13153, 13288, 65305, 120791, 120801,
       120811, 120821, 120831, 130041}>>,
    <<<<43>>, {8314, 8330, 64297, 65122, 65291}>>,
    <<<<61>>, {8316, 8332, 8800, 65126, 65309}>>,
    <<<<40>>, {8317, 8333, 65077, 65113, 65288}>>,
    <<<<41>>, {8318, 8334, 65078, 65114, 65289}>>,
    <<<<82, 115>>, {8360}>>,
    <<<<97, 47, 99>>, {8448}>>,
    <<<<97, 47, 115>>, {8449}>>,
    <<<<99, 47, 111>>, {8453}>>,
    <<<<99, 47, 117>>, {8454}>>,
    <<<<78, 111>>, {8470}>>,
    <<<<81>>, {8474, 9414, 42996, 65329, 119824, 119876, 119928, 119980,
       120032, 120084, 120188, 120240, 120292, 120344, 120396, 120448,
       127296}>>,
    <<<<83, 77>>, {8480}>>,
    <<<<84, 69, 76>>, {8481}>>,
    <<<<84, 77>>, {8482}>>,
    <<<<70, 65, 88>>, {8507}>>,
    <<<<49, 55>>, {8528, 9328, 13161, 13296}>>,
    <<<<49, 57>>, {8529, 9330, 13163, 13298}>>,
    <<<<49, 49, 48>>, {8530}>>,
    <<<<49, 51>>, {8531, 9324, 13157, 13292}>>,
    <<<<50, 51>>, {8532, 12883, 13167, 13302}>>,
    <<<<49, 53>>, {8533, 9326, 13159, 13294}>>,
    <<<<50, 53>>, {8534, 12885, 13304}>>,
    <<<<51, 53>>, {8535, 12895}>>,
    <<<<52, 53>>, {8536, 12986}>>,
    <<<<49, 54>>, {8537, 9327, 13160, 13295}>>,
    <<<<53, 54>>, {8538}>>,
    <<<<49, 56>>, {8539, 9329, 13162, 13297}>>,
    <<<<51, 56>>, {8540, 12979}>>,
    <<<<53, 56>>, {8541}>>,
    <<<<55, 56>>, {8542}>>,
    <<<<73, 73>>, {8545}>>,
    <<<<73, 73, 73>>, {8546}>>,
    <<<<73, 86>>, {8547}>>,
    <<<<86, 73>>, {8549}>>,
    <<<<86, 73, 73>>, {8550}>>,
    <<<<86, 73, 73, 73>>, {8551}>>,
    <<<<73, 88>>, {8552}>>,
    <<<<88, 73>>, {8554}>>,
    <<<<88, 73, 73>>, {8555}>>,
    <<<<105, 105>>, {8561}>>,
    <<<<105, 105, 105>>, {8562}>>,
    <<<<105, 118>>, {8563}>>,
    <<<<118, 105>>, {8565}>>,
    <<<<118, 105, 105>>, {8566}>>,
    <<<<118, 105, 105, 105>>, {8567}>>,
    <<<<105, 120>>, {8568}>>,
    <<<<120, 105>>, {8570}>>,
    <<<<120, 105, 105>>, {8571}>>,
    <<<<48, 51>>, {8585}>>,
    <<<<60>>, {8814, 65124, 65308}>>,
    <<<<62>>, {8815, 65125, 65310}>>,
    <<<<49, 48>>, {9321, 13001, 13154, 13289}>>,
    <<<<49, 49>>, {9322, 13002, 13155, 13290}>>,
    <<<<50, 48>>, {9331, 13164, 13299}>>,
    <<<<40, 49, 41>>, {9332}>>,
    <<<<40, 50, 41>>, {9333}>>,
    <<<<40, 51, 41>>, {9334}>>,
    <<<<40, 52, 41>>, {9335}>>,
    <<<<40, 53, 41>>, {9336}>>,
    <<<<40, 54, 41>>, {9337}>>,
    <<<<40, 55, 41>>, {9338}>>,
    <<<<40, 56, 41>>, {9339}>>,
    <<<<40, 57, 41>>, {9340}>>,
    <<<<40, 49, 48, 41>>, {9341}>>,
    <<<<40, 49, 49, 41>>, {9342}>>,
    <<<<40, 49, 50, 41>>, {9343}>>,
    <<<<40, 49, 51, 41>>, {9344}>>,
    <<<<40, 49, 52, 41>>, {9345}>>,
    <<<<40, 49, 53, 41>>, {9346}>>,
    <<<<40, 49, 54, 41>>, {9347}>>,
    <<<<40, 49, 55, 41>>, {9348}>>,
    <<<<40, 49, 56, 41>>, {9349}>>,
    <<<<40, 49, 57, 41>>, {9350}>>,
    <<<<40, 50, 48, 41>>, {9351}>>,
    <<<<49, 46>>, {9352}>>,
    <<<<50, 46>>, {9353}>>,
    <<<<51, 46>>, {9354}>>,
    <<<<52, 46>>, {9355}>>,
    <<<<53, 46>>, {9356}>>,
    <<<<54, 46>>, {9357}>>,
    <<<<55, 46>>, {9358}>>,
    <<<<56, 46>>, {9359}>>,
    <<<<57, 46>>, {9360}>>,
    <<<<49, 48, 46>>, {9361}>>,
    <<<<49, 49, 46>>, {9362}>>,
    <<<<49, 50, 46>>, {9363}>>,
    <<<<49, 51, 46>>, {9364}>>,
    <<<<49, 52, 46>>, {9365}>>,
    <<<<49, 53, 46>>, {9366}>>,
    <<<<49, 54, 46>>, {9367}>>,
    <<<<49, 55, 46>>, {9368}>>,
    <<<<49, 56, 46>>, {9369}>>,
    <<<<49, 57, 46>>, {9370}>>,
    <<<<50, 48, 46>>, {9371}>>,
    <<<<40, 97, 41>>, {9372}>>,
    <<<<40, 98, 41>>, {9373}>>,
    <<<<40, 99, 41>>, {9374}>>,
    <<<<40, 100, 41>>, {9375}>>,
    <<<<40, 101, 41>>, {9376}>>,
    <<<<40, 102, 41>>, {9377}>>,
    <<<<40, 103, 41>>, {9378}>>,
    <<<<40, 104, 41>>, {9379}>>,
    <<<<40, 105, 41>>, {9380}>>,
    <<<<40, 106, 41>>, {9381}>>,
    <<<<40, 107, 41>>, {9382}>>,
    <<<<40, 108, 41>>, {9383}>>,
    <<<<40, 109, 41>>, {9384}>>,
    <<<<40, 110, 41>>, {9385}>>,
    <<<<40, 111, 41>>, {9386}>>,
    <<<<40, 112, 41>>, {9387}>>,
    <<<<40, 113, 41>>, {9388}>>,
    <<<<40, 114, 41>>, {9389}>>,
    <<<<40, 115, 41>>, {9390}>>,
    <<<<40, 116, 41>>, {9391}>>,
    <<<<40, 117, 41>>, {9392}>>,
    <<<<40, 118, 41>>, {9393}>>,
    <<<<40, 119, 41>>, {9394}>>,
    <<<<40, 120, 41>>, {9395}>>,
    <<<<40, 121, 41>>, {9396}>>,
    <<<<40, 122, 41>>, {9397}>>,
    <<<<113>>, {9440, 65361, 67493, 119850, 119902, 119954, 120006, 120058,
       120110, 120162, 120214, 120266, 120318, 120370, 120422, 120474}>>,
    <<<<58, 58, 61>>, {10868}>>,
    <<<<61, 61>>, {10869}>>,
    <<<<61, 61, 61>>, {10870}>>,
    <<<<40, 41>>, (12800..12830) \cup (12832..12867)>>,
    <<<<80, 84, 69>>, {12880}>>,
    <<<<50, 49>>, {12881, 13165, 13300}>>,
    <<<<50, 50>>, {12882, 13166, 13301}>>,
    <<<<50, 52>>, {12884, 13168, 13303}>>,
    <<<<50, 54>>, {12886, 13305}>>,
    <<<<50, 55>>, {12887, 13306}>>,
    <<<<50, 56>>, {12888, 13307}>>,
    <<<<50, 57>>, {12889, 13308}>>,
    <<<<51, 48>>, {12890, 13309}>>,
    <<<<51, 49>>, {12891, 13310}>>,
    <<<<51, 50>>, {12892}>>,
    <<<<51, 51>>, {12893}>>,
    <<<<51, 54>>, {12977}>>,
    <<<<51, 55>>, {12978}>>,
    <<<<51, 57>>, {12980}>>,
    <<<<52, 48>>, {12981}>>,
    <<<<52, 49>>, {12982}>>,
    <<<<52, 50>>, {12983}>>,
    <<<<52, 51>>, {12984}>>,
    <<<<52, 52>>, {12985}>>,
    <<<<52, 54>>, {12987}>>,
    <<<<52, 55>>, {12988}>>,
    <<<<52, 56>>, {12989}>>,
    <<<<52, 57>>, {12990}>>,
    <<<<53, 48>>, {12991}>>,
    <<<<72, 103>>, {13004}>>,
    <<<<101, 114, 103>>, {13005}>>,
    <<<<101, 86>>, {13006}>>,
    <<<<76, 84, 68>>, {13007}>>,
    <<<<104, 80, 97>>, {13169}>>,
    <<<<100, 97>>, {13170}>>,
    <<<<65, 85>>, {13171}>>,
    <<<<98, 97, 114>>, {13172}>>,
    <<<<111, 86>>, {13173}>>,
    <<<<112, 99>>, {13174}>>,
    <<<<100, 109>>, {13175}>>,
    <<<<100, 109, 50>>, {13176}>>,
    <<<<100, 109, 51>>, {13177}>>,
    <<<<73, 85>>, {13178}>>,
    <<<<112, 65>>, {13184}>>,
    <<<<110, 65>>, {13185}>>,
    <<<<109, 65>>, {13187}>>,
    <<<<107, 65>>, {13188}>>,
    <<<<75, 66>>, {13189}>>,
    <<<<77, 66>>, {13190}>>,
    <<<<71, 66>>, {13191}>>,
    <<<<99, 97, 108>>, {13192}>>,
    <<<<107, 99, 97, 108>>, {13193}>>,
    <<<<112, 70>>, {13194}>>,
    <<<<110, 70>>, {13195}>>,
    <<<<109, 103>>, {13198}>>,
    <<<<107, 103>>, {13199}>>,
    <<<<72, 122>>, {13200}>>,
    <<<<107, 72, 122>>, {13201}>>,
    <<<<77, 72, 122>>, {13202}>>,
    <<<<71, 72, 122>>, {13203}>>,
    <<<<84, 72, 122>>, {13204}>>,
    <<<<109, 108>>, {13206}>>,
    <<<<100, 108>>, {13207}>>,
    <<<<107, 108>>, {13208}>>,
    <<<<102, 109>>, {13209}>>,
    <<<<110, 109>>, {13210}>>,
    <<<<109, 109>>, {13212}>>,
    <<<<99, 109>>, {13213}>>,
    <<<<107, 109>>, {13214}>>,
    <<<<109, 109, 50>>, {13215}>>,
    <<<<99, 109, 50>>, {13216}>>,
    <<<<109, 50>>, {13217}>>,
    <<<<107, 109, 50>>, {13218}>>,
    <<<<109, 109, 51>>, {13219}>>,
    <<<<99, 109, 51>>, {13220}>>,
    <<<<109, 51>>, {13221}>>,
    <<<<107, 109, 51>>, {13222}>>,
    <<<<109, 115>>, {13223, 13235}>>,
    <<<<109, 115, 50>>, {13224}>>,
    <<<<80, 97>>, {13225}>>,
    <<<<107, 80, 97>>, {13226}>>,
    <<<<77, 80, 97>>, {13227}>>,
    <<<<71, 80, 97>>, {13228}>>,
    <<<<114, 97, 100>>, {13229}>>,
    <<<<114, 97, 100, 115>>, {13230}>>,
    <<<<114, 97, 100, 115, 50>>, {13231}>>,
    <<<<112, 115>>, {13232}>>,
    <<<<110, 115>>, {13233}>>,
    <<<<112, 86>>, {13236}>>,
    <<<<110, 86>>, {13237}>>,
    <<<<109, 86>>, {13239}>>,
    <<<<107, 86>>, {13240}>>,
    <<<<77, 86>>, {13241, 127307}>>,
    <<<<112, 87>>, {13242}>>,
    <<<<110, 87>>, {13243}>>,
    <<<<109, 87>>, {13245}>>,
    <<<<107, 87>>, {13246}>>,
    <<<<77, 87>>, {13247}>>,
    <<<<97, 46, 109, 46>>, {13250}>>,
    <<<<66, 113>>, {13251}>>,
    <<<<99, 99>>, {13252}>>,
    <<<<99, 100>>, {13253}>>,
    <<<<67, 107, 103>>, {13254}>>,
    <<<<67, 111, 46>>, {13255}>>,
    <<<<100, 66>>, {13256}>>,
    <<<<71, 121>>, {13257}>>,
    <<<<104, 97>>, {13258}>>,
    <<<<72, 80>>, {13259}>>,
    <<<<105, 110>>, {13260}>>,
    <<<<75, 75>>, {13261}>>,
    <<<<75, 77>>, {13262}>>,
    <<<<107, 116>>, {13263}>>,
    <<<<108, 109>>, {13264}>>,
    <<<<108, 110>>, {13265}>>,
    <<<<108, 111, 103>>, {13266}>>,
    <<<<108, 120>>, {13267}>>,
    <<<<109, 98>>, {13268}>>,
    <<<<109, 105, 108>>, {13269}>>,
    <<<<109, 111, 108>>, {13270}>>,
    <<<<80, 72>>, {13271}>>,
    <<<<112, 46, 109, 46>>, {13272}>>,
    <<<<80, 80, 77>>, {13273}>>,
    <<<<80, 82>>, {13274}>>,
    <<<<115, 114>>, {13275}>>,
    <<<<83, 118>>, {13276}>>,
    <<<<87, 98>>, {13277}>>,
    <<<<86, 109>>, {13278}>>,
    <<<<65, 109>>, {13279}>>,
    <<<<103, 97, 108>>, {13311}>>,
    <<<<102, 102>>, {64256}>>,
    <<<<102, 105>>, {64257}>>,
    <<<<102, 108>>, {64258}>>,
    <<<<102, 102, 105>>, {64259}>>,
    <<<<102, 102, 108>>, {64260}>>,
    <<<<115, 116>>, {64261, 64262}>>,
    <<<<32, 32, 32>>, {65018}>>,
    <<<<44>>, {65040, 65104, 65292}>>,
    <<<<58>>, {65043, 65109, 65306}>>,
    <<<<33>>, {65045, 65111, 65281}>>,
    <<<<63>>, {65046, 65110, 65311}>>,
    <<<<95>>, {65075, 65076, 65343} \cup (65101..65103)>>,
    <<<<123>>, {65079, 65115, 65371}>>,
    <<<<125>>, {65080, 65116, 65373}>>,
    <<<<91>>, {65095, 65339}>>,
    <<<<93>>, {65096, 65341}>>,
    <<<<35>>, {65119, 65283}>>,
    <<<<38>>, {65120, 65286}>>,
    <<<<42>>, {65121, 65290}>>,
    <<<<45>>, {65123, 65293}>>,
    <<<<92>>, {65128, 65340}>>,
    <<<<36>>, {65129, 65284}>>,
    <<<<37>>, {65130, 65285}>>,
    <<<<64>>, {65131, 65312}>>,
    <<<<34>>, {65282}>>,
    <<<<39>>, {65287}>>,
    <<<<47>>, {65295}>>,
    <<<<94>>, {65342}>>,
    <<<<124>>, {65372}>>,
    <<<<126>>, {65374}>>,
    <<<<48, 46>>, {127232}>>,
    <<<<48, 44>>, {127233}>>,
    <<<<49, 44>>, {127234}>>,
    <<<<50, 44>>, {127235}>>,
    <<<<51, 44>>, {127236}>>,
    <<<<52, 44>>, {127237}>>,
    <<<<53, 44>>, {127238}>>,
    <<<<54, 44>>, {127239}>>,
    <<<<55, 44>>, {127240}>>,
    <<<<56, 44>>, {127241}>>,
    <<<<57, 44>>, {127242}>>,
    <<<<40, 65, 41>>, {127248}>>,
    <<<<40, 66, 41>>, {127249}>>,
    <<<<40, 67, 41>>, {127250}>>,
    <<<<40, 68, 41>>, {127251}>>,
    <<<<40, 69, 41>>, {127252}>>,
    <<<<40, 70, 41>>, {127253}>>,
    <<<<40, 71, 41>>, {127254}>>,
    <<<<40, 72, 41>>, {127255}>>,
    <<<<40, 73, 41>>, {127256}>>,
    <<<<40, 74, 41>>, {127257}>>,
    <<<<40, 75, 41>>, {127258}>>,
    <<<<40, 76, 41>>, {127259}>>,
    <<<<40, 77, 41>>, {127260}>>,
    <<<<40, 78, 41>>, {127261}>>,
    <<<<40, 79, 41>>, {127262}>>,
    <<<<40, 80, 41>>, {127263}>>,
    <<<<40, 81, 41>>, {127264}>>,
    <<<<40, 82, 41>>, {127265}>>,
    <<<<40, 83, 41>>, {127266}>>,
    <<<<40, 84, 41>>, {127267}>>,
    <<<<40, 85, 41>>, {127268}>>,
    <<<<40, 86, 41>>, {127269}>>,
    <<<<40, 87, 41>>, {127270}>>,
    <<<<40, 88, 41>>, {127271}>>,
    <<<<40, 89, 41>>, {127272}>>,
    <<<<40, 90, 41>>, {127273}>>,
    <<<<67, 68>>, {127277}>>,
    <<<<87, 90>>, {127278}>>,
    <<<<72, 86>>, {127306}>>,
    <<<<83, 68>>, {127308}>>,
    <<<<83, 83>>, {127309}>>,
    <<<<80, 80, 86>>, {127310}>>,
    <<<<87, 67>>, {127311}>>,
    <<<<77, 67>>, {127338}>>,
    <<<<77, 68>>, {127339}>>,
    <<<<77, 82>>, {127340}>>,
    <<<<68, 74>>, {127376}>>
  }

NfkdDomain == UNION {g[2] : g \in NfkdGroups}

NfkdTable == [c \in NfkdDomain |-> (CHOOSE g \in NfkdGroups : c \in g[2])[1]]

\* unicodedata.normalize("NFKD", c).encode("ascii", "ignore") for one
\* character: ASCII stays, a character that decomposes keeps the ASCII
\* characters of its decomposition, anything else is dropped.
NfkdAscii(c) ==
  IF c \in Ascii THEN <<c>>
  ELSE IF c \in NfkdDomain THEN NfkdTable[c] ELSE <<>>

\* The replacements, then normalize("NFKD", text).encode("ascii",
\* "ignore"), character by character.
FlatMapNfkd(s) ==
  Join([i \in 1..Len(s) |-> NfkdAscii(TurkishReplacement(s[i]))])

IsAlnum(c) == c \in Digits \/ c \in Upper \/ c \in Lower

\* re.sub(r"[^A-Za-z0-9]+", "-", s): every run of other characters becomes
\* one hyphen.
CollapseNonAlnum(s) ==
  Join([i \in 1..Len(s) |->
          IF IsAlnum(s[i]) THEN <<s[i]>>
          ELSE IF i > 1 /\ ~IsAlnum(s[i - 1]) THEN <<>>
          ELSE <<Hyphen>>])

slugify_filename(text) ==
  LET t1 == Strip(unquote(text), Whitespace)
      t2 == FlatMapNfkd(t1)
      t3 == LowerText(Strip(CollapseNonAlnum(t2), {Hyphen}))
  IN  IF t3 = <<>> THEN Text(<<"h", "u", "t", "b", "e">>) ELSE t3

\* The characters urllib.parse.quote never encodes (letters, digits, "_",
\* ".", "-" and "~"), and its safe="/".
IsSafe(c) == IsAlnum(c) \/ c \in {95, 46, 45, 126} \/ c = Slash

HexUpper == Text(<<"0","1","2","3","4","5","6","7","8","9","A","B","C","D","E","F">>)

\* str.encode("utf-8") of one character that is no surrogate.
Utf8Encode(c) ==
  CASE c < 128 -> <<c>>
    [] c \in 128..2047 -> <<192 + (c \div 64), 128 + (c % 64)>>
    [] c \in 2048..65535 ->
         <<224 + (c \div 4096), 128 + ((c \div 64) % 64), 128 + (c % 64)>>
    [] OTHER ->
         <<240 + (c \div 262144), 128 + ((c \div 4096) % 64),
           128 + ((c \div 64) % 64), 128 + (c % 64)>>

PercentEncode(bs) ==
  Join([i \in 1..Len(bs) |->
          <<Percent, HexUpper[(bs[i] \div 16) + 1], HexUpper[(bs[i] % 16) + 1]>>])

\* urllib.parse.quote(s): the safe characters are kept, the others become
\* the percent escapes of their UTF-8 bytes.
QuoteChar(c) ==
  IF IsSafe(c) THEN <<c>> ELSE PercentEncode(Utf8Encode(c))

quote(s) == Join([i \in 1..Len(s) |-> QuoteChar(s[i])])

(* ---------------------------- identifiers ------------------------------ *)

UrlFoo == Text(<<"/","x","/","F","o","o",".","p","d","f">>)
UrlH1485 == Text(<<"/","x","/","h","1","4","8","5",".","p","d","f">>)
Url2021 == Text(<<"/","x","/","2","0","2","1","-","4","8","8","2",".","p","d","f">>)

\* hashlib.sha1(url.encode("utf-8")).hexdigest()[:16], tabulated for the
\* URLs of the model's listing (BASE_SITE followed by the path).
hutbe_id_from_url(source_pdf_url) ==
  CASE source_pdf_url = UrlFoo ->
         Text(<<"e","5","7","6","8","6","2","1","a","d","9","3","e","1","c","8">>)
    [] source_pdf_url = UrlH1485 ->
         Text(<<"d","3","5","7","b","0","7","1","f","c","7","3","1","6","8","f">>)
    [] source_pdf_url = Url2021 ->
         Text(<<"d","3","5","7","b","0","e","7","3","0","6","e","5","7","5","2">>)

(* --------------------------- year resolution --------------------------- *)

\* A component of a path as pathlib keeps it: not when empty or ".".
PathPart(part) == IF part \in {<<>>, <<Dot>>} THEN <<>> ELSE <<part>>

\* PurePath(p).parts without the root.
RECURSIVE PathParts(_)
PathParts(p) ==
  IF Positions(p, Slash) = {} THEN PathPart(p)
  ELSE PathPart(SubSeq(p, 1, Min(Positions(p, Slash)) - 1))
         \o PathParts(SubSeq(p, Min(Positions(p, Slash)) + 1, Len(p)))

\* PurePath(p).name: the last component.
PathName(p) ==
  IF PathParts(p) = <<>> THEN <<>> ELSE PathParts(p)[Len(PathParts(p))]

\* PurePath(p).stem: the name without its last suffix; a name's leading or
\* trailing dot starts no suffix.
PathStem(p) ==
  LET name == PathName(p)
      dots == Positions(name, Dot)
  IN  IF dots = {} \/ Max(dots) = 1 \/ Max(dots) = Len(name) THEN name
      ELSE SubSeq(name, 1, Max(dots) - 1)

\* Path(unquote(urlsplit(url).path)).stem
SourceName(source_pdf_url) == PathStem(unquote(source_pdf_url))

\* The code points of the digit zero of every script: the characters \d
\* matches and int() reads are these and the nine that follow each.
DecimalZeros ==
  {48, 1632, 1776, 1984, 2406, 2534, 2662, 2790, 2918, 3046, 3174, 3302,
   3430, 3558, 3664, 3792, 3872, 4160, 4240, 6112, 6160, 6470, 6608, 6784,
   6800, 6992, 7088, 7232, 7248, 42528, 43216, 43264, 43472, 43504, 43600,
   44016, 65296, 66720, 68912, 69734, 69872, 69942, 70096, 70384, 70736,
   70864, 71248, 71360, 71472, 71904, 72016, 72784, 73040, 73120, 92768,
   92864, 93008, 120782, 120792, 120802, 120812, 120822, 123200, 123632,
   125264, 130032}

IsDecimal(c) == \E z \in DecimalZeros : c \in z..(z + 9)

DigitValue(c) == c - (CHOOSE z \in DecimalZeros : c \in z..(z + 9))

\* Start positions of the matches of YEAR_RE = (20\d{2}) in s ("2" is 50
\* and "0" is 48).
YearMatches(s) ==
  {i \in 1..(Len(s) - 3) :
     /\ s[i] = 50
     /\ s[i + 1] = 48
     /\ IsDecimal(s[i + 2])
     /\ IsDecimal(s[i + 3])}

\* int() of four decimal digits.
IntOf4(s, i) ==
  DigitValue(s[i]) * 1000 + DigitValue(s[i + 1]) * 100
    + DigitValue(s[i + 2]) * 10 + DigitValue(s[i + 3])

\* Mutant of determine_year: the file name is consulted before the date.
determine_year_name_first(candidate, utcYear) ==
  LET source_name == SourceName(candidate.source_pdf_url)
  IN  IF YearMatches(source_name) # {}
      THEN IntOf4(source_name, Min(YearMatches(source_name)))
      ELSE IF candidate.date # NoDate THEN candidate.date[1] ELSE utcYear

\* determine_year(candidate); utcYear is datetime.now(timezone.utc).year.
determine_year(candidate, utcYear) ==
  IF candidate.date # NoDate THEN candidate.date[1]
  ELSE LET source_name == SourceName(candidate.source_pdf_url)
       IN  IF YearMatches(source_name) # {}
           THEN IntOf4(source_name, Min(YearMatches(source_name)))
           ELSE utcYear

(* --------------------------- page extraction --------------------------- *)

\* A listing page after parsing: "rows" holds, per table row with a PDF
\* anchor, that anchor's href and text and the first date of the row's
\* text (NoDate when it has none); "loose" holds the PDF anchors outside
\* any table row.
RowCandidate(row) ==
  [source_pdf_url |-> row.href,
   title |-> IF Len(row.text) < 3 THEN PathStem(unquote(row.href)) ELSE row.text,
   date |-> row.date]

AnchorCandidate(a) ==
  [source_pdf_url |-> a.href,
   title |-> IF a.text = <<>> THEN PathStem(unquote(a.href)) ELSE a.text,
   date |-> NoDate]

extract_pdf_candidates(page) ==
  IF page.rows # <<>>
  THEN [i \in 1..Len(page.rows) |-> RowCandidate(page.rows[i])]
  ELSE [i \in 1..Len(page.loose) |-> AnchorCandidate(page.loose[i])]

(* ------------------------------ the remote ----------------------------- *)

\* Three PDF links whose titles have one slug: no anchor text (the title is
\* the stem, "Foo"), "F", U+00D4, "O", and "f%6Fo".
RowFoo == [href |-> UrlFoo, text |-> <<>>, date |-> <<2021, 3, 5>>]
RowH1485 == [href |-> UrlH1485, text |-> <<Ord("F"), 212, Ord("O")>>,
             date |-> <<2021, 3, 12>>]
Anchor2021 == [href |-> Url2021, text |-> Text(<<"f", "%", "6", "F", "o">>)]

\* A link to /x/Foo.pdf under a title of 300 characters, whose file name
\* is longer than a file name can be.
LongTitle == [i \in 1..300 |-> Ord("A")]
AnchorLong == [href |-> UrlFoo, text |-> LongTitle]

\* What session.get(page_url) can answer: a status other than 200, an
\* exception (time-out, connection error), or a 200 page.  "label" names
\* the answer.
PageNon200 ==
  [label |-> "non200", kind |-> "non200", rows |-> <<>>, loose |-> <<>>]
PageRaises ==
  [label |-> "raises", kind |-> "raises", rows |-> <<>>, loose |-> <<>>]
PageEmpty ==
  [label |-> "empty", kind |-> "ok", rows |-> <<>>, loose |-> <<>>]
PageTable ==
  [label |-> "table", kind |-> "ok", rows |-> <<RowFoo, RowH1485>>,
   loose |-> <<>>]
PageLoose ==
  [label |-> "loose", kind |-> "ok", rows |-> <<>>,
   loose |-> <<AnchorLong, Anchor2021>>]
Unfetched ==
  [label |-> "unfetched", kind |-> "unfetched", rows |-> <<>>, loose |-> <<>>]

PageChoices == {PageNon200, PageRaises, PageEmpty, PageTable, PageLoose}

\* The answer of that label.
Served(label) == CHOOSE page \in PageChoices \cup {Unfetched} : page.label = label

\* What download_file can do once it has made the directory: write the
\* file and return True ("ok"), return False without the file ("fail":
\* status not 200, an exception in get or in opening the file), or return
\* False after the file was opened ("partial": an exception while the body
\* streams).
Outcomes == {"ok", "fail", "partial"}

\* The clock of the crawl: the year of datetime.now(timezone.utc) and the
\* local date of datetime.now() as (year, month, day).  At 01:00 of
\* 1 January 2022 in a zone three hours ahead of UTC the two years differ.
Clocks == {[utc_year |-> 2021, today |-> <<2022, 1, 1>>]}

(* ------------------------------ the files ------------------------------ *)

\* The longest file name the file system takes (NAME_MAX of Linux), in
\* bytes; the file names of the crawl are ASCII.
NAME_MAX == 255

\* What a catalog path can be: nothing; a directory; a file of UTF-8 text
\* that is no JSON or no JSON list (an empty file, a fragment of a list);
\* a file of bytes that are not UTF-8; a file with a JSON list that
\* json.load cannot build (an integer of more than 4300 digits:
\* ValueError; nesting beyond the recursion limit: RecursionError); a file
\* with a JSON list that json.load reads as data.
AbsentFile == [kind |-> "absent", data |-> <<>>]
DirectoryFile == [kind |-> "directory", data |-> <<>>]
NotJsonFile == [kind |-> "not_json", data |-> <<>>]
NotUtf8File == [kind |-> "not_utf8", data |-> <<>>]
UnreadableListFile == [kind |-> "unreadable_list", data |-> <<>>]
ListFile(data) == [kind |-> "list", data |-> data]

\* A catalog entry as an earlier run stored it for /x/h1485.pdf, found in
\* the Turkish listing when tr/2021/foo.pdf was free.
StoredEntry ==
  [id |-> hutbe_id_from_url(UrlH1485),
   title |-> <<Ord("F"), 212, Ord("O")>>,
   date |-> <<2021, 3, 12>>,
   year |-> 2021,
   language |-> "tr",
   filename |-> Text(<<"f", "o", "o", ".", "p", "d", "f">>),
   source_pdf_url |-> UrlH1485,
   pdf_url |-> <<"pdfs", "tr", 2021, Text(<<"f", "o", "o", ".", "p", "d", "f">>)>>]

\* The code points no UTF-8 text holds: the surrogates.
Surrogates == 55296..57343

\* The same entry with the title "\ud800" (JSON reads the escape as a lone
\* surrogate), filed under the fallback slug.
SurrogateEntry ==
  [StoredEntry EXCEPT
     !.title = <<55296>>,
     !.filename = Text(<<"h", "u", "t", "b", "e", ".", "p", "d", "f">>),
     !.pdf_url = <<"pdfs", "tr", 2021,
                   Text(<<"h", "u", "t", "b", "e", ".", "p", "d", "f">>)>>]

\* Items of a stored list that are no catalog entry: a value that is no
\* JSON object (a number, a string), and an object whose "id" is a JSON
\* list.
NumberItem == [scalar |-> 1]
IdListItem == [id_list |-> <<>>]

\* Whether lines 203-204 get past an item: item.get needs an object
\* (AttributeError otherwise) and the set needs a hashable id (TypeError).
CanIndex(item) == DOMAIN item \cap {"scalar", "id_list"} = {}

\* Mutant of load_json: the stored list is never recognised.
load_json_always_empty(file) == [raised |-> FALSE, value |-> <<>>]

\* load_json(path): the stored list; [] when the path is absent, is a
\* directory or holds no JSON list (JSONDecodeError and OSError are caught).
\* Bytes that are not UTF-8 raise UnicodeDecodeError and a list json.load
\* cannot build raises ValueError or RecursionError; none of them is caught.
load_json(file) ==
  CASE file.kind = "list" -> [raised |-> FALSE, value |-> file.data]
    [] file.kind \in {"not_utf8", "unreadable_list"} ->
         [raised |-> TRUE, value |-> <<>>]
    [] OTHER -> [raised |-> FALSE, value |-> <<>>]

\* Whether json.dump(ensure_ascii=False) can write an item to a UTF-8
\* file: the texts that come from a listing page or a stored catalog hold
\* no surrogate.
CanEncode(text) == \A i \in 1..Len(text) : text[i] \notin Surrogates
Encodable(item) ==
  \A key \in DOMAIN item \cap {"title", "filename", "source_pdf_url"} :
    CanEncode(item[key])

\* save_json(data, path): what the file is afterwards and whether the call
\* raised.  open("w") raises on a directory (IsADirectoryError) and leaves
\* it; on anything else it empties the file, and json.dump then writes the
\* list up to the first text it cannot encode, where it raises
\* UnicodeEncodeError and leaves a fragment.
save_json(data, file) ==
  IF file.kind = "directory" THEN [raised |-> TRUE, file |-> file]
  ELSE IF \E i \in 1..Len(data) : ~Encodable(data[i])
  THEN [raised |-> TRUE, file |-> NotJsonFile]
  ELSE [raised |-> FALSE, file |-> ListFile(data)]

\* Whether the file system takes a file name: one of more than NAME_MAX
\* bytes makes stat and open fail with ENAMETOOLONG once the lookup has
\* reached it.
NameFits(filename) == Len(filename) <= NAME_MAX

\* local_path.exists() for PDF_ROOT/lang/year/filename: False when the
\* directory is missing (ENOENT); OSError when the directory is there and
\* the name is too long; else whether the file is there.
path_exists(lang, year, filename, ds, fs) ==
  IF <<lang, year>> \notin ds THEN [raised |-> FALSE, value |-> FALSE]
  ELSE IF ~NameFits(filename) THEN [raised |-> TRUE, value |-> FALSE]
  ELSE [raised |-> FALSE, value |-> <<lang, year, filename>> \in fs]

\* download_file's effect on the destination: the path exists afterwards
\* iff it existed before or the file was opened for writing.
FilesAfterDownload(fs, path, out) ==
  IF out \in {"ok", "partial"} THEN fs \cup {path} ELSE fs

\* destination.parent.mkdir(parents=True, exist_ok=True)
DirsAfterDownload(ds, lang, year) == ds \cup {<<lang, year>>}

\* download_file's return value.
DownloadSucceeded(out) == out = "ok"

(* ------------------------------- state --------------------------------- *)

VARIABLES
  pc,             \* where main() stands
  run,            \* which execution of main() this is
  now,            \* the clock: the UTC year and the local date
  listing,        \* the remote listing as served so far: per language and
                  \*          page, the label of the answer
  files,          \* PDF_ROOT/<lang>/<year>/<filename> paths that exist
  dirs,           \* PDF_ROOT/<lang>/<year> directories that exist
  prayer_files,   \* PDF_ROOT/prayers/<filename> names that exist
  hutbes_json,    \* the file HUTBES_PATH
  prayers_json,   \* the file PRAYERS_PATH
  prayer_i,       \* process_prayers: index of the item in PRAYER_URLS
  prayers_list,   \* process_prayers: prayers_list
  prayer_log,     \* history: per item handled by process_prayers in this run,
                  \*          "existed" or download_file's outcome
  hutbes,         \* main: hutbes
  existing_ids,   \* main: existing_ids
  existing_urls,  \* main: existing_urls
  new_entries,    \* main: new_entries
  lang_i,         \* main: index of lang in URLS
  page_num,       \* main: page_num
  candidates,     \* main: candidates
  cand_i,         \* main: index of candidate in candidates
  fetched,        \* history: the pages fetched in this run, in order
  page_log,       \* history: per candidate handled on the last fetched page,
                  \*          "known" or download_file's outcome
  failed_urls,    \* history: URLs whose download failed in this run
  dropped_urls,   \* history: URLs of the candidates this run never handled,
                  \*          their page abandoned by an exception before them
  redownloaded,   \* history: a URL of failed_urls was downloaded again
  failures,       \* history: the downloads that failed so far
  json_at_start,  \* history: hutbes_json when this run started
  files_at_start, \* history: files when this run started
  writes,         \* history: save_json(hutbes, HUTBES_PATH) calls of this run
  prev,           \* history: summary of the previous run
  probe,          \* year resolution: the candidate and clock drawn
  probe_year      \* year resolution: determine_year's result, 0 before the call

remote == <<listing, now>>
disk == <<files, dirs, prayer_files, hutbes_json, prayers_json>>
prayers_locals == <<prayer_i, prayers_list>>
main_locals == <<hutbes, existing_ids, existing_urls, new_entries,
                 lang_i, page_num, candidates, cand_i>>
history == <<prayer_log, fetched, page_log, failed_urls, dropped_urls,
             redownloaded, failures, json_at_start, files_at_start, writes,
             prev>>
probes == <<probe, probe_year>>
vars == <<pc, run, remote, disk, prayers_locals, main_locals, history, probes>>

NoProbe ==
  [name |-> <<>>, candidate |-> [source_pdf_url |-> <<>>, date |-> NoDate],
   utc_year |-> 0]

\* A disk without PDFs and without a prayer catalog, holding one of the
\* given hutbe catalogs.
InitCrawl(catalogs) ==
  /\ run = 1
  /\ listing = [l \in 1..Len(URLS) |-> [p \in START_PAGE..END_PAGE |-> Unfetched.label]]
  /\ files = {}
  /\ dirs = {}
  /\ prayer_files = {}
  /\ hutbes_json \in catalogs
  /\ prayers_json = AbsentFile
  /\ prayer_i = 1
  /\ prayers_list = <<>>
  /\ prayer_log = <<>>
  /\ hutbes = <<>>
  /\ existing_ids = {}
  /\ existing_urls = {}
  /\ new_entries = <<>>
  /\ lang_i = 1
  /\ page_num = START_PAGE
  /\ candidates = <<>>
  /\ cand_i = 1
  /\ fetched = <<>>
  /\ page_log = <<>>
  /\ failed_urls = {}
  /\ dropped_urls = {}
  /\ redownloaded = FALSE
  /\ failures = 0
  /\ json_at_start = hutbes_json
  /\ files_at_start = files
  /\ writes = 0
  /\ prev = [count |-> 0, failed |-> {}, dropped |-> {}, ended |-> "none"]

\* The hutbe catalogs a first run may find.
InitCatalogs ==
  {AbsentFile, DirectoryFile, NotUtf8File, UnreadableListFile,
   ListFile(<<NumberItem>>), ListFile(<<IdListItem>>),
   ListFile(<<StoredEntry>>), ListFile(<<SurrogateEntry>>)}

Init ==
  /\ InitCrawl(InitCatalogs)
  /\ pc = "prayers"
  /\ now \in Clocks
  /\ probe = NoProbe
  /\ probe_year = 0

(* --------------------------- process_prayers --------------------------- *)

PrayerFilename(info) == slugify_filename(info.title) \o PdfExt

PrayerEntry(info) ==
  [id |-> info.key,
   title |-> info.title,
   filename |-> PrayerFilename(info),
   pdf_url |-> <<"pdfs", "prayers", quote(PrayerFilename(info))>>,
   source_url |-> info.url]

\* The file name and the entry of every item of PRAYER_URLS, in order.
PrayerFilenames == [i \in 1..Len(PRAYER_URLS) |-> PrayerFilename(PRAYER_URLS[i])]
PrayerEntries == [i \in 1..Len(PRAYER_URLS) |-> PrayerEntry(PRAYER_URLS[i])]

\* Mutant of PrayerListed: an item is listed whatever its download did.
PrayerListedAlways(existed, out) == TRUE

\* Whether the loop body reaches prayers_list.append for an item: the file
\* was there, or its download succeeded.
PrayerListed(existed, out) == existed \/ DownloadSucceeded(out)

\* One iteration of "for key, info in PRAYER_URLS.items()".
PrayerItem(out) ==
  /\ pc = "prayers"
  /\ prayer_i <= Len(PRAYER_URLS)
  /\ LET filename == PrayerFilenames[prayer_i]
         existed == filename \in prayer_files
     IN  /\ existed => out = "ok"
         /\ prayer_files' = IF existed THEN prayer_files
                            ELSE FilesAfterDownload(prayer_files, filename, out)
         /\ prayers_list' = IF PrayerListed(existed, out)
                            THEN Append(prayers_list, PrayerEntries[prayer_i])
                            ELSE prayers_list
         /\ prayer_log' = Append(prayer_log, IF existed THEN "existed" ELSE out)
         /\ failures' = IF existed \/ DownloadSucceeded(out)
                        THEN failures ELSE failures + 1
  /\ prayer_i' = prayer_i + 1
  /\ UNCHANGED <<pc, run, remote, files, dirs, hutbes_json, prayers_json,
                 main_locals, fetched, page_log, failed_urls, dropped_urls,
                 redownloaded, json_at_start, files_at_start, writes, prev,
                 probes>>

\* What process_prayers hands to save_json.
PrayersToSave(list) == list

\* save_json(prayers_list, PRAYERS_PATH), the end of process_prayers; an
\* exception out of it ends main() at line 199.
PrayersSave ==
  /\ pc = "prayers"
  /\ prayer_i > Len(PRAYER_URLS)
  /\ LET saved == save_json(PrayersToSave(prayers_list), prayers_json)
     IN  /\ prayers_json' = saved.file
         /\ pc' = IF saved.raised THEN "prayers_failed" ELSE "load"
  /\ UNCHANGED <<run, remote, files, dirs, prayer_files, hutbes_json,
                 prayers_locals, main_locals, history, probes>>

(* -------------------------------- main --------------------------------- *)

\* None, written as a text that no string equals.
None == <<-1>>

\* item.get(key)
Get(item, key) == IF key \in DOMAIN item THEN item[key] ELSE None

\* hutbes = load_json(HUTBES_PATH) and the two sets built from it.
KnownIds(items) == {Get(items[i], "id") : i \in 1..Len(items)}
KnownUrls(items) == {Get(items[i], "source_pdf_url") : i \in 1..Len(items)}

\* Lines 202-204.  An exception out of load_json, or out of the two set
\* comprehensions on an item they cannot index, ends main() there.
LoadCatalog ==
  /\ pc = "load"
  /\ LET loaded == load_json(hutbes_json)
     IN  IF \/ loaded.raised
            \/ \E i \in 1..Len(loaded.value) : ~CanIndex(loaded.value[i])
         THEN /\ pc' = "aborted"
              /\ UNCHANGED <<hutbes, existing_ids, existing_urls>>
         ELSE /\ pc' = "fetch"
              /\ hutbes' = loaded.value
              /\ existing_ids' = KnownIds(loaded.value)
              /\ existing_urls' = KnownUrls(loaded.value)
  /\ new_entries' = <<>>
  /\ lang_i' = 1
  /\ page_num' = START_PAGE
  /\ UNCHANGED <<run, remote, disk, prayers_locals, candidates, cand_i,
                 history, probes>>

\* Where the two loops stand after "break" in the page loop.
AfterBreak(li) ==
  IF li < Len(URLS)
  THEN [pc |-> "fetch", lang_i |-> li + 1, page_num |-> START_PAGE]
  ELSE [pc |-> "save", lang_i |-> li, page_num |-> START_PAGE]

\* Where they stand when the body of the page loop ends or "continue"s.
AfterPage(li, pn) ==
  IF pn < END_PAGE
  THEN [pc |-> "fetch", lang_i |-> li, page_num |-> pn + 1]
  ELSE AfterBreak(li)

\* The except clause of the page loop: "continue".
AfterException(li, pn) == AfterPage(li, pn)

\* The page loop's body up to the candidate loop.
AfterFetch(response, li, pn) ==
  CASE response.kind = "raises" -> AfterException(li, pn)
    [] response.kind = "non200" -> AfterBreak(li)
    [] response.kind = "ok" /\ extract_pdf_candidates(response) = <<>> -> AfterBreak(li)
    [] OTHER -> [pc |-> "cand", lang_i |-> li, page_num |-> pn]

\* The place of a listing page in crawl order.
PageIndex(li, pn) == (li - 1) * (END_PAGE - START_PAGE + 1) + (pn - START_PAGE) + 1

\* session.get(page_url) and what follows up to the first candidate.  The
\* remote answers a page it has served before as it did then, and holds
\* the first ListedPages pages only.
FetchPage(response) ==
  /\ pc = "fetch"
  /\ PageIndex(lang_i, page_num) > ListedPages => response = PageNon200
  /\ \/ listing[lang_i][page_num] = response.label
     \/ listing[lang_i][page_num] = Unfetched.label /\ run = 1
  /\ listing' = [listing EXCEPT ![lang_i][page_num] = response.label]
  /\ fetched' = Append(fetched, <<lang_i, page_num>>)
  /\ page_log' = <<>>
  /\ LET next == AfterFetch(response, lang_i, page_num)
     IN  /\ pc' = next.pc
         /\ lang_i' = next.lang_i
         /\ page_num' = next.page_num
  /\ candidates' = IF response.kind = "ok"
                   THEN extract_pdf_candidates(response) ELSE candidates
  /\ cand_i' = 1
  /\ UNCHANGED <<run, now, disk, prayers_locals, hutbes, existing_ids,
                 existing_urls, new_entries, prayer_log, failed_urls,
                 dropped_urls, redownloaded, failures, json_at_start,
                 files_at_start, writes, prev, probes>>

\* "if h_id in existing_ids or source_url in existing_urls"
IsKnown(h_id, source_url, ids, urls) == h_id \in ids \/ source_url \in urls

\* Where the loops stand after candidate ci of n.
AfterCandidate(li, pn, ci, n) ==
  IF ci < n
  THEN [pc |-> "cand", lang_i |-> li, page_num |-> pn, cand_i |-> ci + 1]
  ELSE [pc |-> AfterPage(li, pn).pc, lang_i |-> AfterPage(li, pn).lang_i,
        page_num |-> AfterPage(li, pn).page_num, cand_i |-> ci + 1]

\* Mutant of AfterDownload: a failed download leaves the candidate loop.
AfterDownloadBreaks(out, li, pn, ci, n) ==
  IF DownloadSucceeded(out) THEN AfterCandidate(li, pn, ci, n)
  ELSE [pc |-> AfterPage(li, pn).pc, lang_i |-> AfterPage(li, pn).lang_i,
        page_num |-> AfterPage(li, pn).page_num, cand_i |-> ci + 1]

\* Mutant of AfterDownload: a failed download is tried again at once.
AfterDownloadRetries(out, li, pn, ci, n) ==
  IF DownloadSucceeded(out) THEN AfterCandidate(li, pn, ci, n)
  ELSE [pc |-> "cand", lang_i |-> li, page_num |-> pn, cand_i |-> ci]

\* Where they stand after download_file answered for candidate ci.
AfterDownload(out, li, pn, ci, n) == AfterCandidate(li, pn, ci, n)

\* The candidate loop's "continue" for a known candidate.
SkipKnown ==
  /\ pc = "cand"
  /\ LET source_url == candidates[cand_i].source_pdf_url
     IN  IsKnown(hutbe_id_from_url(source_url), source_url,
                 existing_ids, existing_urls)
  /\ LET next == AfterCandidate(lang_i, page_num, cand_i, Len(candidates))
     IN  /\ pc' = next.pc
         /\ lang_i' = next.lang_i
         /\ page_num' = next.page_num
         /\ cand_i' = next.cand_i
  /\ page_log' = Append(page_log, "known")
  /\ UNCHANGED <<run, remote, disk, prayers_locals, hutbes, existing_ids,
                 existing_urls, new_entries, candidates, prayer_log,
                 fetched, failed_urls, dropped_urls, redownloaded, failures,
                 json_at_start, files_at_start, writes, prev, probes>>

\* Mutant of ResolveFilename: the destination is never checked.
ResolveFilenameUnchecked(base_slug, h_id, lang, year, fs) == base_slug \o PdfExt

\* filename, after the single local_path.exists() check.
ResolveFilename(base_slug, h_id, lang, year, fs) ==
  IF <<lang, year, base_slug \o PdfExt>> \in fs
  THEN base_slug \o <<Hyphen>> \o SubSeq(h_id, 1, 6) \o PdfExt
  ELSE base_slug \o PdfExt

NewEntry(candidate, h_id, lang, year, filename, today) ==
  [id |-> h_id,
   title |-> candidate.title,
   date |-> IF candidate.date # NoDate THEN candidate.date ELSE today,
   year |-> year,
   language |-> lang,
   filename |-> filename,
   source_pdf_url |-> candidate.source_pdf_url,
   pdf_url |-> <<"pdfs", lang, year, quote(filename)>>]

\* hutbes.insert(0, new_entry)
InsertFirst(items, entry) == <<entry>> \o items

\* Mutant of AddKnown: the set is not updated.
AddKnownForgets(known, x) == known

\* existing_ids.add / existing_urls.add
AddKnown(known, x) == known \cup {x}

\* download_file may fail while fewer than MaxFailures downloads have.
Within(out) == DownloadSucceeded(out) \/ failures < MaxFailures

\* What download_file can do for a destination: anything the remote
\* brings about when the file can be opened; with a file name that is too
\* long, destination.open raises OSError, which download_file catches to
\* return False (as it does when the status is not 200).
CanAnswer(out, filename) ==
  IF NameFits(filename) THEN Within(out) ELSE out = "fail"

\* The candidate loop's body for a candidate that is not known and whose
\* local_path.exists() answers: the download, and the new entry when it
\* succeeded.
DownloadCandidate(out) ==
  /\ pc = "cand"
  /\ LET candidate == candidates[cand_i]
         source_url == candidate.source_pdf_url
         h_id == hutbe_id_from_url(source_url)
         lang == URLS[lang_i]
         year == determine_year(candidate, now.utc_year)
         base_slug == slugify_filename(candidate.title)
         filename == ResolveFilename(base_slug, h_id, lang, year, files)
         new_entry == NewEntry(candidate, h_id, lang, year, filename, now.today)
         next == AfterDownload(out, lang_i, page_num, cand_i, Len(candidates))
     IN  /\ ~IsKnown(h_id, source_url, existing_ids, existing_urls)
         /\ ~path_exists(lang, year, base_slug \o PdfExt, dirs, files).raised
         /\ CanAnswer(out, filename)
         /\ failures' = IF DownloadSucceeded(out) \/ ~NameFits(filename)
                        THEN failures ELSE failures + 1
         /\ dirs' = DirsAfterDownload(dirs, lang, year)
         /\ files' = FilesAfterDownload(files, <<lang, year, filename>>, out)
         /\ page_log' = Append(page_log, out)
         /\ redownloaded' = (redownloaded \/ source_url \in failed_urls)
         /\ IF DownloadSucceeded(out)
            THEN /\ new_entries' = Append(new_entries, new_entry)
                 /\ hutbes' = InsertFirst(hutbes, new_entry)
                 /\ existing_ids' = AddKnown(existing_ids, h_id)
                 /\ existing_urls' = AddKnown(existing_urls, source_url)
                 /\ UNCHANGED failed_urls
            ELSE /\ failed_urls' = failed_urls \cup {source_url}
                 /\ UNCHANGED <<new_entries, hutbes, existing_ids, existing_urls>>
         /\ pc' = next.pc
         /\ lang_i' = next.lang_i
         /\ page_num' = next.page_num
         /\ cand_i' = next.cand_i
  /\ UNCHANGED <<run, remote, prayer_files, hutbes_json, prayers_json,
                 prayers_locals, candidates, prayer_log, fetched,
                 dropped_urls, json_at_start, files_at_start, writes, prev,
                 probes>>

\* The candidate loop's body for a candidate that is not known and whose
\* local_path.exists() raises OSError (the directory is there and the file
\* name is too long): the except clause of the page loop takes over and
\* the rest of the page is never handled.
CandidateRaises ==
  /\ pc = "cand"
  /\ LET candidate == candidates[cand_i]
         source_url == candidate.source_pdf_url
         h_id == hutbe_id_from_url(source_url)
         lang == URLS[lang_i]
         year == determine_year(candidate, now.utc_year)
         base_slug == slugify_filename(candidate.title)
         next == AfterException(lang_i, page_num)
     IN  /\ ~IsKnown(h_id, source_url, existing_ids, existing_urls)
         /\ path_exists(lang, year, base_slug \o PdfExt, dirs, files).raised
         /\ pc' = next.pc
         /\ lang_i' = next.lang_i
         /\ page_num' = next.page_num
  /\ page_log' = Append(page_log, "raised")
  /\ dropped_urls' = dropped_urls \cup
       {candidates[i].source_pdf_url : i \in (cand_i + 1)..Len(candidates)}
  /\ UNCHANGED <<run, remote, disk, prayers_locals, hutbes, existing_ids,
                 existing_urls, new_entries, candidates, cand_i, prayer_log,
                 fetched, failed_urls, redownloaded, failures, json_at_start,
                 files_at_start, writes, prev, probes>>

\* Mutant of ShouldSave: the catalog is saved at the end of every run.
ShouldSaveAlways(entries) == TRUE

\* "if new_entries:"
ShouldSave(entries) == entries # <<>>

\* The end of main: the catalog is saved when the run found something; an
\* exception out of save_json ends main() at line 273.
Finish ==
  /\ pc = "save"
  /\ IF ShouldSave(new_entries)
     THEN LET saved == save_json(hutbes, hutbes_json)
          IN  /\ hutbes_json' = saved.file
              /\ writes' = writes + 1
              /\ pc' = IF saved.raised THEN "save_failed" ELSE "done"
     ELSE /\ pc' = "done"
          /\ UNCHANGED <<hutbes_json, writes>>
  /\ UNCHANGED <<run, remote, files, dirs, prayer_files, prayers_json,
                 prayers_locals, main_locals, prayer_log, fetched, page_log,
                 failed_urls, dropped_urls, redownloaded, failures,
                 json_at_start, files_at_start, prev, probes>>

\* The next execution of main(): a new process, the same disk and remote.
StartRun ==
  /\ pc \in {"done", "aborted", "save_failed", "prayers_failed"}
  /\ run < MaxRuns
  /\ run' = run + 1
  /\ pc' = "prayers"
  /\ prayer_i' = 1
  /\ prayers_list' = <<>>
  /\ hutbes' = <<>>
  /\ existing_ids' = {}
  /\ existing_urls' = {}
  /\ new_entries' = <<>>
  /\ lang_i' = 1
  /\ page_num' = START_PAGE
  /\ candidates' = <<>>
  /\ cand_i' = 1
  /\ prayer_log' = <<>>
  /\ fetched' = <<>>
  /\ page_log' = <<>>
  /\ failed_urls' = {}
  /\ dropped_urls' = {}
  /\ redownloaded' = FALSE
  /\ json_at_start' = hutbes_json
  /\ files_at_start' = files
  /\ writes' = 0
  /\ prev' = [count |-> Len(load_json(hutbes_json).value),
              failed |-> failed_urls, dropped |-> dropped_urls,
              ended |-> pc]
  /\ UNCHANGED <<remote, disk, failures, probes>>

\* main(), run after run.
Next ==
  \/ \E out \in Outcomes : Within(out) /\ PrayerItem(out)
  \/ PrayersSave
  \/ LoadCatalog
  \/ \E response \in PageChoices : FetchPage(response)
  \/ SkipKnown
  \/ \E out \in Outcomes : DownloadCandidate(out)
  \/ CandidateRaises
  \/ Finish
  \/ StartRun

Spec == Init /\ [][Next]_vars

\* The prayer pass with any number of failed downloads, with a remote
\* whose listing pages all answer 404.
NextPrayers ==
  \/ \E out \in Outcomes : PrayerItem(out)
  \/ PrayersSave
  \/ LoadCatalog
  \/ FetchPage(PageNon200)
  \/ Finish
  \/ StartRun

SpecPrayers == Init /\ [][NextPrayers]_vars

(* ------------------- year resolution on drawn inputs ------------------- *)

NameAlphabet == {Ord("2"), Ord("0"), Ord("1"), Ord("x"), Dot}
Names == UNION {[1..n -> NameAlphabet] : n \in 1..MaxNameLen}
ProbeDates == {NoDate, <<2021, 3, 5>>, <<1999, 12, 31>>}
ProbeYears == {2025, 2026}

\* The candidate extract_pdf_candidates yields for href /x/<name>.pdf.
ProbeCandidate(name, date) ==
  [source_pdf_url |-> Text(<<"/", "x", "/">>) \o name \o PdfExt, date |-> date]

InitYear ==
  /\ InitCrawl({AbsentFile})
  /\ pc = "probe"
  /\ now \in Clocks
  /\ probe \in {[name |-> name, candidate |-> ProbeCandidate(name, date),
                  utc_year |-> y] :
                   name \in Names, date \in ProbeDates, y \in ProbeYears}
  /\ probe_year = 0

\* year = determine_year(candidate)
ResolveYear ==
  /\ pc = "probe"
  /\ probe_year' = determine_year(probe.candidate, probe.utc_year)
  /\ pc' = "probed"
  /\ UNCHANGED <<run, remote, disk, prayers_locals, main_locals, history, probe>>

NextYear == ResolveYear

SpecYear == InitYear /\ [][NextYear]_vars

(* ------------------------------- claims -------------------------------- *)

\* The catalog as main() loaded it in this run.
Loaded == load_json(json_at_start).value

\* The catalog as stored now.
Stored == load_json(hutbes_json).value

\* main() is past lines 202-204 / main() has ended, with or without an
\* exception.
Crawling == pc \in {"fetch", "cand", "save", "done", "save_failed"}
RunEnded == pc \in {"done", "aborted", "save_failed", "prayers_failed"}

Reverse(s) == [i \in 1..Len(s) |-> s[Len(s) + 1 - i]]

Answer(f) == Served(listing[f[1]][f[2]])

Stops(r) ==
  r.kind = "non200" \/ (r.kind = "ok" /\ r.rows = <<>> /\ r.loose = <<>>)

NextLanguage(f) == <<f[1] + 1, START_PAGE>>

\* The page that follows page f of the listing in the crawl.
Follows(f) ==
  IF Stops(Answer(f)) \/ f[2] = END_PAGE THEN NextLanguage(f)
  ELSE <<f[1], f[2] + 1>>

\* The page loop has gone through every language.
AllLanguagesDone ==
  /\ fetched # <<>>
  /\ Follows(fetched[Len(fetched)])[1] = Len(URLS) + 1

\* C1: a candidate whose source_pdf_url is in the loaded catalog adds no
\* entry, however often it is observed; a run adds at most one entry per
\* source_pdf_url; so the entry count grows by exactly the number of new
\* URLs, and not at all when every candidate is known.
C1_Dedup ==
  /\ \A i \in 1..Len(new_entries) :
       new_entries[i].source_pdf_url \notin KnownUrls(Loaded)
  /\ \A i, j \in 1..Len(new_entries) :
       i # j => new_entries[i].source_pdf_url # new_entries[j].source_pdf_url
  /\ Crawling => Len(hutbes) = Len(Loaded) + Len(new_entries)
  /\ pc = "done" => Len(Stored) = Len(Loaded) + Len(new_entries)

\* C1 witness: a run that loaded entries observed a candidate of the loaded
\* catalog and skipped it, the entry count as it was.
C1_Witness ==
  /\ Loaded # <<>>
  /\ new_entries = <<>>
  /\ Len(hutbes) = Len(Loaded)
  /\ \E i \in 1..Len(page_log) :
       /\ page_log[i] = "known"
       /\ candidates[i].source_pdf_url \in KnownUrls(Loaded)

PlainName(e) == slugify_filename(e.title) \o PdfExt
SuffixedName(e) ==
  slugify_filename(e.title) \o <<Hyphen>> \o SubSeq(e.id, 1, 6) \o PdfExt
SamePartition(a, b) == a.language = b.language /\ a.year = b.year
SameSlug(a, b) == slugify_filename(a.title) = slugify_filename(b.title)
PlainPath(e) == <<e.language, e.year, PlainName(e)>>

\* C3 as stated: no two catalog entries of one language and year share a
\* filename.
C3_FilenamesUnique ==
  \A i, j \in 1..Len(hutbes) :
    (i < j /\ SamePartition(hutbes[i], hutbes[j]))
      => hutbes[i].filename # hutbes[j].filename

\* C3 as amended: an entry carries the name suffixed with the first 6 hex
\* characters of its id when a file was at its plain path, the plain name
\* otherwise; so of two entries added in one run with the same base slug,
\* language and year the later one is suffixed, and the two names differ
\* unless both are suffixed and the ids agree on those 6 characters.
C3_LaterIsSuffixed ==
  \A j \in 1..Len(new_entries) :
    LET e == new_entries[j]
    IN  /\ e.filename \in {PlainName(e), SuffixedName(e)}
        /\ PlainPath(e) \in files_at_start => e.filename = SuffixedName(e)
        /\ e.filename = SuffixedName(e) => PlainPath(e) \in files
        /\ \A i \in 1..(j - 1) :
             LET d == new_entries[i]
             IN  (SamePartition(d, e) /\ SameSlug(d, e)) =>
                   /\ e.filename = SuffixedName(e)
                   /\ d.filename = e.filename =>
                        /\ d.filename = SuffixedName(d)
                        /\ SubSeq(d.id, 1, 6) = SubSeq(e.id, 1, 6)

\* C3 witness: two entries with one base slug, language and year, the
\* earlier under the plain name and the later under its suffixed name.
C3_Witness ==
  \E i, j \in 1..Len(new_entries) :
    /\ i < j
    /\ SamePartition(new_entries[i], new_entries[j])
    /\ SameSlug(new_entries[i], new_entries[j])
    /\ new_entries[i].filename = PlainName(new_entries[i])
    /\ new_entries[j].filename = SuffixedName(new_entries[j])
    /\ new_entries[i].source_pdf_url # new_entries[j].source_pdf_url

Failed(o) == o \in {"fail", "partial"}

\* The candidate loop of the last fetched page ran to the page's end or
\* was left by an exception (never by a download that failed).
PageHandled ==
  \/ Len(page_log) = Len(candidates)
  \/ page_log[Len(page_log)] = "raised"

\* C4: a failed download adds no entry for that candidate, and the other
\* candidates of the page are still handled: up to the page's end, or to
\* a candidate that raises, every candidate is skipped as known or
\* downloaded, and each successful download is in the catalog.
C4_FailureIsolation ==
  /\ (pc # "cand" /\ page_log # <<>>) => PageHandled
  /\ pc = "cand" => (Len(page_log) = cand_i - 1 /\ cand_i <= Len(candidates))
  /\ \A i \in 1..Len(page_log) :
       /\ page_log[i] = "ok" =>
            candidates[i].source_pdf_url \in KnownUrls(new_entries)
       /\ Failed(page_log[i]) =>
            \/ candidates[i].source_pdf_url \notin KnownUrls(hutbes)
            \/ \E j \in (i + 1)..Len(page_log) :
                 /\ candidates[j].source_pdf_url = candidates[i].source_pdf_url
                 /\ page_log[j] = "ok"

\* C4 witness: on one page a download failed and a later sibling was
\* downloaded and added.
C4_Witness ==
  \E i, j \in 1..Len(page_log) :
    /\ i < j
    /\ Failed(page_log[i])
    /\ page_log[j] = "ok"
    /\ candidates[i].source_pdf_url \notin KnownUrls(hutbes)
    /\ candidates[j].source_pdf_url \in KnownUrls(new_entries)

\* Whether s ends with t.
EndsWith(s, t) ==
  /\ Len(t) <= Len(s)
  /\ SubSeq(s, Len(s) - Len(t) + 1, Len(s)) = t

\* C5: the entries loaded at the start of a run stay, unchanged and in
\* order, behind the entries the run adds, in memory and, when the run has
\* ended, in the stored catalog.
C5_OldIsSuffix ==
  /\ Crawling => hutbes = Reverse(new_entries) \o Loaded
  /\ RunEnded => EndsWith(Stored, Loaded)

\* C5 divergence reached: a run over a stored catalog found a new entry,
\* its save_json raised, and the stored catalog holds no entry any more.
C5_Witness ==
  /\ pc = "save_failed"
  /\ Loaded # <<>>
  /\ new_entries # <<>>
  /\ Stored = <<>>

\* What holds of the stored catalog besides: a run that ends without an
\* exception stores the new entries, newest first, before the loaded ones;
\* one that ends with an exception leaves the file as it was or, when
\* json.dump raised, as a fragment that is no JSON.
StoredAfterRun ==
  /\ Crawling => hutbes = Reverse(new_entries) \o Loaded
  /\ pc = "done" => Stored = Reverse(new_entries) \o Loaded
  /\ pc \in {"aborted", "prayers_failed"} => hutbes_json = json_at_start
  /\ pc = "save_failed" => hutbes_json \in {json_at_start, NotJsonFile}

\* C6: the hutbe catalog is written at most once per run, after the page
\* loop has gone through every language, and only when the run produced an
\* entry; otherwise the file is as it was.
C6_SaveOnceIfNew ==
  /\ writes <= 1
  /\ writes = 1 =>
       /\ pc \in {"done", "save_failed"}
       /\ new_entries # <<>>
       /\ AllLanguagesDone
  /\ writes = 0 => hutbes_json = json_at_start
  /\ (RunEnded /\ new_entries = <<>>) => writes = 0
  /\ (pc = "done" /\ writes = 1) => hutbes_json = ListFile(hutbes)

\* C6 witness: a run over a stored catalog found nothing new and left the
\* file alone.
C6_Witness ==
  /\ pc = "done"
  /\ new_entries = <<>>
  /\ json_at_start.kind = "list"
  /\ hutbes_json = json_at_start
  /\ writes = 0
  /\ \E k \in 1..Len(fetched) :
       extract_pdf_candidates(Answer(fetched[k])) # <<>>

AllPrayers == [i \in 1..Len(PRAYER_URLS) |-> PrayerEntry(PRAYER_URLS[i])]

RECURSIVE ListedPrayers(_, _)
ListedPrayers(log, i) ==
  IF i > Len(log) THEN <<>>
  ELSE (IF log[i] \in {"existed", "ok"} THEN <<AllPrayers[i]>> ELSE <<>>)
         \o ListedPrayers(log, i + 1)

ProcessPrayersDone == pc \in {"load", "aborted", "fetch", "save", "done"}

\* C7 as stated: after process_prayers the prayer catalog holds an entry
\* for every item of the table.
C7_FullTable == ProcessPrayersDone => prayers_json = ListFile(AllPrayers)

\* C7 as amended: after process_prayers the prayer catalog has been
\* overwritten with, in table order, the entries of the items whose file
\* existed or was downloaded successfully in this run.
C7_ListsAvailable ==
  ProcessPrayersDone =>
    /\ Len(prayer_log) = Len(PRAYER_URLS)
    /\ prayers_json = ListFile(ListedPrayers(prayer_log, 1))

\* C7 witness: nothing was downloaded in this run (one file existed, the
\* other download failed) and the file was rewritten with the one entry.
C7_Witness ==
  /\ pc = "load"
  /\ \E i, j \in 1..Len(prayer_log) :
       prayer_log[i] = "existed" /\ Failed(prayer_log[j])
  /\ Len(prayers_json.data) = 1

TokenStarts(n) ==
  {i \in 1..Len(n) :
     /\ i + 3 <= Len(n)
     /\ SubSeq(n, i, i + 1) = Text(<<"2", "0">>)
     /\ {n[i + 2], n[i + 3]} \subseteq 48..57}

TokenValue(n, i) == 2000 + 10 * (n[i + 2] - 48) + (n[i + 3] - 48)

\* C8: a dated candidate resolves to its date's year; an undated one whose
\* file name holds "20" and two digits resolves to the leftmost such
\* token; one with neither resolves to the current UTC year.
C8_YearPriority ==
  pc = "probed" =>
    LET d == probe.candidate.date
        n == probe.name
    IN  /\ d # NoDate => probe_year = d[1]
        /\ (d = NoDate /\ TokenStarts(n) # {}) =>
             \E i \in TokenStarts(n) :
               /\ probe_year = TokenValue(n, i)
               /\ \A j \in TokenStarts(n) : i <= j
        /\ (d = NoDate /\ TokenStarts(n) = {}) => probe_year = probe.utc_year

\* C8 witness: a dated candidate whose file name holds another year
\* resolved to the date's year.
C8_Witness ==
  /\ pc = "probed"
  /\ probe.candidate.date # NoDate
  /\ \E i \in TokenStarts(probe.name) :
       TokenValue(probe.name, i) # probe.candidate.date[1]
  /\ probe_year = probe.candidate.date[1]

\* The transitions of the page loop: the crawl starts at the first
\* language's start page; after a page that is not 200 or has no candidate
\* it goes to the next language's start page; after any other page, one
\* that raised included, it goes to the language's next page (to the next
\* language after the last page).
PageLoopTransitions ==
  /\ fetched # <<>> => fetched[1] = <<1, START_PAGE>>
  /\ \A k \in 1..(Len(fetched) - 1) : fetched[k + 1] = Follows(fetched[k])
  /\ pc \in {"save", "done", "save_failed"} => AllLanguagesDone

\* C9: the page loop makes these transitions, and every language's start
\* page is fetched in every run.
C9_PageLoop ==
  /\ PageLoopTransitions
  /\ RunEnded =>
       \A l \in 1..Len(URLS) :
         \E k \in 1..Len(fetched) : fetched[k] = <<l, START_PAGE>>

\* C9 divergence reached: a run ended at lines 202-204 with no page
\* fetched.
C9_Witness ==
  /\ pc = "aborted"
  /\ fetched = <<>>
  /\ hutbes_json = json_at_start

\* C10 as stated: a URL whose download failed is not downloaded again in
\* the same run.
C10_NeverDownloadedAgain == ~redownloaded

\* C10 as amended: a failed download adds no entry and is not retried for
\* that occurrence (each candidate of a page is handled once, then the next
\* one); the URL is not remembered: a candidate is skipped as known only
\* when its URL is in the catalog, so a later occurrence of a failed URL is
\* downloaded again or raises, and the URL is in the catalog only if a
\* later download of it succeeded.
C10_NoRetryPerOccurrence ==
  /\ pc = "cand" => Len(page_log) = cand_i - 1
  /\ (pc # "cand" /\ page_log # <<>>) => PageHandled
  /\ \A u \in failed_urls : u \in KnownUrls(hutbes) => redownloaded
  /\ \A i \in 1..Len(page_log) :
       page_log[i] = "known" =>
         candidates[i].source_pdf_url \in KnownUrls(hutbes)

\* C10 witness: a download failed, the same URL was observed again,
\* downloaded again and added.
C10_Witness ==
  /\ redownloaded
  /\ \E u \in failed_urls : u \in KnownUrls(new_entries)

====
